---- MODULE Spec2Model ----
(***************************************************************************)
(* Dell privacy notification driver (dell-privacy-wmi.c, the ACPI LED      *)
(* part and the header): the registration list, the validity gate, the    *)
(* event relay, the status query and the mic-mute indicator, as a state   *)
(* machine.  Probe, remove and the event relay are split at the points    *)
(* where another task can interleave: the list mutex serialises the       *)
(* critical sections, everything outside them runs unlocked.              *)
(***************************************************************************)
EXTENDS Integers, Sequences, FiniteSets, TLC

(* ------------------------------------------------------------------ *)
(* Program constants                                                    *)
(* ------------------------------------------------------------------ *)
EIO == 5
ENOMEM == 12
ENODEV == 19
EINVAL == 22
EPROBE_DEFER == 517

KE_END == 0
KE_KEY == 1
KE_SW == 2
KEY_MICMUTE == 248
SW_CAMERA_LENS_COVER == 9

DELL_PRIVACY_TYPE_AUDIO == 1
DELL_PRIVACY_TYPE_CAMERA == 2

\* the namespace prefix of the remapped scancodes, 0x0012
KeymapType == 18
\* the buffer length get_current_status accepts
StatusBufferLength == 8

(* ------------------------------------------------------------------ *)
(* Bounds and input sets                                                *)
(* ------------------------------------------------------------------ *)
\* longest log of emitted input actions that is kept
MaxReports == 1
\* longest sequence of accepted events delivered to one instance
MaxRelayed == 3
\* most acknowledgment calls that are counted
MaxAcks == 2

\* the wmi devices that can be bound to the driver
Devs == {"wdev1", "wdev2"}
\* the device of the runs that follow a sequence of events on one instance
RelayDevs == {"wdev1"}
NoTask == "none"
EvtTask == "evt"

\* 16-bit event types and codes a notification can carry; the status words
\* and the firmware's bitmaps are non-negative and below 2^31, where the
\* conversions between int and u32 keep the value
EvTypes == {0, 18, 65535}
EvCodes == {0, 1, 2, 3, 65535}
EvStatuses == {0, 3}

NoObj == [kind |-> "none", length |-> 0, data |-> <<>>]
\* what wmidev_block_query can hand back: NULL, a non-buffer object, buffers
\* of the wrong length, well-formed 8-byte buffers
Responses ==
    { [kind |-> "null", length |-> 0, data |-> <<>>],
      [kind |-> "integer", length |-> 0, data |-> <<>>],
      [kind |-> "buffer", length |-> 4, data |-> <<3>>],
      [kind |-> "buffer", length |-> 8, data |-> <<3, 1>>],
      [kind |-> "buffer", length |-> 8, data |-> <<31, 26>>] }

(* ------------------------------------------------------------------ *)
(* Pure helpers                                                         *)
(* ------------------------------------------------------------------ *)
TwoTo16 == 2^16

\* TLC's integers have 32 bits, so a u32 that can exceed 2^31 - 1 (a
\* scancode) is kept as its two 16-bit halves
RECURSIVE BitOr(_, _)
BitOr(a, b) ==
    IF a = 0 THEN b
    ELSE IF b = 0 THEN a
    ELSE (IF a % 2 = 1 \/ b % 2 = 1 THEN 1 ELSE 0) + 2 * BitOr(a \div 2, b \div 2)

\* (type << 16) | code as the unsigned int the lookup receives: the shift
\* keeps the low 16 bits of type as the high half, the or adds code
Scancode(type, code) ==
    [hi |-> BitOr(type % TwoTo16, (code \div TwoTo16) % TwoTo16),
     lo |-> code % TwoTo16]

dell_wmi_keymap_type_0012 ==
    << [type |-> KE_KEY, code |-> 1, keycode |-> KEY_MICMUTE],
       [type |-> KE_SW,  code |-> 2, keycode |-> SW_CAMERA_LENS_COVER],
       [type |-> KE_END, code |-> 0, keycode |-> 0] >>

\* the keymap probe builds: every entry of the table (KE_END included) gets
\* code |= 0x0012 << 16; the extra kcalloc'ed entry stays zero
RemappedKeymap ==
    [i \in 1..(Len(dell_wmi_keymap_type_0012) + 1) |->
        IF i <= Len(dell_wmi_keymap_type_0012)
        THEN [type |-> dell_wmi_keymap_type_0012[i].type,
              code |-> [hi |-> BitOr(dell_wmi_keymap_type_0012[i].code \div TwoTo16,
                                     KeymapType),
                        lo |-> dell_wmi_keymap_type_0012[i].code % TwoTo16],
              keycode |-> dell_wmi_keymap_type_0012[i].keycode]
        ELSE [type |-> 0, code |-> [hi |-> 0, lo |-> 0], keycode |-> 0]]

RECURSIVE KeymapScan(_, _, _)
KeymapScan(km, i, code) ==
    IF i > Len(km) \/ km[i].type = KE_END THEN 0
    ELSE IF km[i].code = code THEN i
    ELSE KeymapScan(km, i + 1, code)

\* index of the entry with this scancode, 0 for NULL
sparse_keymap_entry_from_scancode(km, code) == KeymapScan(km, 1, code)

HexDigits == <<"0", "1", "2", "3", "4", "5", "6", "7",
               "8", "9", "a", "b", "c", "d", "e", "f">>

RECURSIVE FormatHex(_)
FormatHex(n) ==
    IF n < 16 THEN <<HexDigits[n + 1]>>
    ELSE FormatHex(n \div 16) \o <<HexDigits[(n % 16) + 1]>>

\* sysfs_emit(buf, "%x\n", v)
sysfs_emit_x(v) == FormatHex(v) \o <<"\n">>

(* ------------------------------------------------------------------ *)
(* State                                                                *)
(* ------------------------------------------------------------------ *)
VARIABLES
    privacy_valid,   \* the cached validity value (0 or a negative errno)
    wmi_list,        \* the registration list, head first
    list_mutex,      \* NoTask or the task that holds the list mutex
    priv,            \* per device: features_present, last_status
    wdev,            \* per device: position of its probe/remove, locals
    evt,             \* the event relay invocation in flight
    reports,         \* the input actions emitted so far
    has_guid,        \* wmi_has_guid(DELL_PRIVACY_GUID)
    q_ret,           \* what the last dell_privacy_valid() call returned
    led,             \* the last brightness_set_blocking call
    ec_calls,        \* ECAK evaluations issued so far
    hist             \* history: who wrote privacy_valid last, probes seen

vars == <<privacy_valid, wmi_list, list_mutex, priv, wdev, evt, reports,
          has_guid, q_ret, led, ec_calls, hist>>

ZeroPriv == [features_present |-> 0, last_status |-> 0]

\* a device with no driver bound: no priv, no input device
\* (qret is 1 as long as get_current_status has not returned)
Unbound(r) ==
    [pc |-> "unbound", ret |-> r, obj |-> NoObj, qret |-> 1,
     err |-> "none", input_dev |-> "none", fw |-> <<>>]

EvtIdle == [pc |-> "idle", type |-> 0, code |-> 0, status |-> 0,
            priv |-> NoTask, key |-> 0]

LedIdle == [brightness |-> -1, handle |-> "none", ret |-> 0, issued |-> 0]

\* pv: the kind of the last write to privacy_valid, by: the device whose
\* probe or remove made it, sq: the kind of the last status query or removal,
\* probed: a probe has run, ev: the devices whose last_status an event has
\* written since their status query, log: the accepted events in the order
\* of their delivery, dropped: a call of the relay has found no instance
\* (both kept by the runs that follow event sequences)
HistInit == [pv |-> "none", by |-> NoTask, sq |-> "none", probed |-> FALSE,
             ev |-> {}, log |-> <<>>, dropped |-> FALSE]

Init ==
    /\ privacy_valid = -EPROBE_DEFER
    /\ wmi_list = <<>>
    /\ list_mutex = NoTask
    /\ priv = [d \in Devs |-> ZeroPriv]
    /\ wdev = [d \in Devs |-> Unbound(0)]
    /\ evt = EvtIdle
    /\ reports = <<>>
    /\ has_guid \in BOOLEAN
    /\ q_ret = 1
    /\ led = LedIdle
    /\ ec_calls = 0
    /\ hist = HistInit

(* ------------------------------------------------------------------ *)
(* List helpers                                                         *)
(* ------------------------------------------------------------------ *)
InList(d) == \E i \in 1..Len(wmi_list) : wmi_list[i] = d

IndexOf(d) == CHOOSE i \in 1..Len(wmi_list) : wmi_list[i] = d

ListWithout(d) == SelectSeq(wmi_list, LAMBDA x : x # d)

\* a relay that picks the entry registered last
ListFirst_tail == IF wmi_list = <<>> THEN NoTask ELSE wmi_list[Len(wmi_list)]

\* list_first_entry_or_null
ListFirst == IF wmi_list = <<>> THEN NoTask ELSE wmi_list[1]

\* the priv of d was released by devres while still linked in wmi_list
PrivFreed(d) == wdev[d].pc = "dead"

\* the input device of d (and the keymap hanging off it) was freed
InputFreed(d) == wdev[d].input_dev = "freed"

(* ------------------------------------------------------------------ *)
(* Undefined behaviour: an access to released memory either finds the   *)
(* old contents or faults, and a fault kills the task where it stands   *)
(* (with the list mutex, if it holds it).                               *)
(* ------------------------------------------------------------------ *)
\* list_add_tail writes the next pointer of the current tail node
ListAddOutcomes ==
    IF wmi_list # <<>> /\ PrivFreed(wmi_list[Len(wmi_list)])
    THEN {"intact", "oops"} ELSE {"intact"}

\* list_del writes the neighbours of the node; a node that was never added
\* has NULL pointers (a fault, or the refusal of a list-debugging build)
ListDelOutcomes(d) ==
    IF ~InList(d) THEN {"refused", "oops"}
    ELSE IF \E i \in 1..Len(wmi_list) :
              /\ i \in {IndexOf(d) - 1, IndexOf(d) + 1}
              /\ PrivFreed(wmi_list[i])
         THEN {"intact", "oops"} ELSE {"intact"}

\* the relay reads priv->input_dev and the keymap behind it
LookupOutcomes(h) ==
    IF PrivFreed(h) \/ InputFreed(h) THEN {"intact", "null", "oops"} ELSE {"intact"}

\* the relay writes priv->last_status and reports on priv->input_dev
ApplyOutcomes(h) ==
    IF PrivFreed(h) \/ InputFreed(h) THEN {"intact", "oops"} ELSE {"intact"}

\* input_unregister_device of remove
UnregisterOutcomes(d) ==
    IF InputFreed(d) THEN {"intact", "oops"} ELSE {"intact"}

(* ------------------------------------------------------------------ *)
(* dell_privacy_wmi_probe                                               *)
(* ------------------------------------------------------------------ *)
DevFrame == UNCHANGED <<evt, reports, has_guid, q_ret, led, ec_calls>>

\* allocation of priv and of the input device, keymap set-up and
\* input_register_device: the part of probe that touches no shared state
ProbeSetup(d) ==
    /\ wdev[d].pc = "unbound"
    /\ has_guid
    /\ \E outcome \in {"nomem", "input_register_fail", "ok"} :
         wdev' = [wdev EXCEPT ![d] =
                    CASE outcome = "nomem" -> Unbound(-ENOMEM)
                      [] outcome = "input_register_fail" ->
                           [Unbound(0) EXCEPT !.pc = "err_free_keymap",
                                              !.err = "input_register",
                                              !.input_dev = "allocated"]
                      [] OTHER ->
                           [Unbound(0) EXCEPT !.pc = "list_add",
                                              !.input_dev = "registered"]]
    /\ priv' = [priv EXCEPT ![d] = ZeroPriv]
    /\ hist' = [hist EXCEPT !.probed = TRUE, !.ev = @ \ {d}]
    /\ UNCHANGED <<privacy_valid, wmi_list, list_mutex>>
    /\ DevFrame

\* mutex_lock; list_add_tail; mutex_unlock
ProbeListAdd(d) ==
    /\ wdev[d].pc = "list_add"
    /\ list_mutex = NoTask
    /\ \E outcome \in ListAddOutcomes :
         IF outcome = "oops"
         THEN /\ list_mutex' = d
              /\ wdev' = [wdev EXCEPT ![d].pc = "oops"]
              /\ UNCHANGED wmi_list
         ELSE /\ wmi_list' = Append(wmi_list, d)
              /\ wdev' = [wdev EXCEPT ![d].pc = "query"]
              /\ UNCHANGED list_mutex
    /\ UNCHANGED <<privacy_valid, priv, hist>>
    /\ DevFrame

\* get_current_status, first half: the firmware query
ProbeQuery(d) ==
    /\ wdev[d].pc = "query"
    /\ \E r \in Responses :
         wdev' = [wdev EXCEPT ![d].pc = "gcs_store", ![d].obj = r]
    /\ UNCHANGED <<privacy_valid, wmi_list, list_mutex, priv, hist>>
    /\ DevFrame

\* get_current_status whose length check forgets privacy_valid = ret
get_current_status_nolen(obj, p) ==
    IF obj.kind = "null"
    THEN [ret |-> -EIO, valid |-> -EIO, priv |-> p]
    ELSE IF obj.kind # "buffer"
    THEN [ret |-> -EIO, valid |-> -EIO, priv |-> p]
    ELSE IF obj.length # StatusBufferLength
    THEN [ret |-> -EINVAL, valid |-> privacy_valid, priv |-> p]
    ELSE [ret |-> 0, valid |-> 0,
          priv |-> [features_present |-> obj.data[1],
                    last_status |-> obj.data[2]]]

\* get_current_status with the two words of the buffer swapped
get_current_status_swapped(obj, p) ==
    IF obj.kind = "null"
    THEN [ret |-> -EIO, valid |-> -EIO, priv |-> p]
    ELSE IF obj.kind # "buffer"
    THEN [ret |-> -EIO, valid |-> -EIO, priv |-> p]
    ELSE IF obj.length # StatusBufferLength
    THEN [ret |-> -EINVAL, valid |-> -EINVAL, priv |-> p]
    ELSE [ret |-> 0, valid |-> 0,
          priv |-> [features_present |-> obj.data[2],
                    last_status |-> obj.data[1]]]

\* get_current_status that reads buffer[0] before it checks the length
get_current_status_early(obj, p) ==
    IF obj.kind = "null"
    THEN [ret |-> -EIO, valid |-> -EIO, priv |-> p]
    ELSE IF obj.kind # "buffer"
    THEN [ret |-> -EIO, valid |-> -EIO, priv |-> p]
    ELSE IF obj.length # StatusBufferLength
    THEN [ret |-> -EINVAL, valid |-> -EINVAL,
          priv |-> [p EXCEPT !.features_present = obj.data[1]]]
    ELSE [ret |-> 0, valid |-> 0,
          priv |-> [features_present |-> obj.data[1],
                    last_status |-> obj.data[2]]]

\* what get_current_status does with the object the query returned, given
\* the instance p: its return value, the value it stores into privacy_valid
\* and the instance it leaves
get_current_status(obj, p) ==
    IF obj.kind = "null"
    THEN [ret |-> -EIO, valid |-> -EIO, priv |-> p]
    ELSE IF obj.kind # "buffer"
    THEN [ret |-> -EIO, valid |-> -EIO, priv |-> p]
    ELSE IF obj.length # StatusBufferLength
    THEN [ret |-> -EINVAL, valid |-> -EINVAL, priv |-> p]
    ELSE [ret |-> 0, valid |-> 0,
          priv |-> [features_present |-> obj.data[1],
                    last_status |-> obj.data[2]]]

\* get_current_status, second half: the checks and the stores, which run
\* without the list mutex
ProbeStore(d) ==
    /\ wdev[d].pc = "gcs_store"
    /\ LET r == get_current_status(wdev[d].obj, priv[d]) IN
         /\ privacy_valid' = r.valid
         /\ priv' = [priv EXCEPT ![d] = r.priv]
         /\ wdev' = [wdev EXCEPT
                       ![d].pc = IF r.ret = 0 THEN "add_group" ELSE "err_free_input",
                       ![d].qret = r.ret,
                       ![d].err = IF r.ret = 0 THEN "none" ELSE "status_query",
                       ![d].fw = IF r.ret = 0 THEN wdev[d].obj.data ELSE <<>>,
                       ![d].obj = NoObj]
         /\ hist' = [hist EXCEPT
                       !.pv = IF r.ret = 0 THEN "query_ok" ELSE "query_err",
                       !.sq = IF r.ret = 0 THEN "query_ok" ELSE "query_err",
                       !.by = d,
                       !.ev = IF r.ret = 0 THEN @ \ {d} ELSE @]
    /\ UNCHANGED <<wmi_list, list_mutex>>
    /\ DevFrame

\* devm_device_add_group and the successful return
ProbeAddGroup(d) ==
    /\ wdev[d].pc = "add_group"
    /\ \E ok \in BOOLEAN :
         wdev' = IF ok
                 THEN [wdev EXCEPT ![d].pc = "bound", ![d].ret = 0]
                 ELSE [wdev EXCEPT ![d].pc = "err_free_input",
                                   ![d].ret = -ENOMEM,
                                   ![d].err = "add_group"]
    /\ UNCHANGED <<privacy_valid, wmi_list, list_mutex, priv, hist>>
    /\ DevFrame

\* err_free_input: input_unregister_device
ProbeErrFreeInput(d) ==
    /\ wdev[d].pc = "err_free_input"
    /\ wdev' = [wdev EXCEPT ![d].pc = "err_free_keymap",
                            ![d].input_dev = "unregistered"]
    /\ UNCHANGED <<privacy_valid, wmi_list, list_mutex, priv, hist>>
    /\ DevFrame

\* an error path that leaves the gate as get_current_status set it
ProbeErrValid_keep == privacy_valid

\* the value probe's error path stores into privacy_valid
ProbeErrValid == -ENODEV

\* the value probe returns on its error path, from its local ret
ProbeErrReturn(ret) == ret

\* err_free_keymap, err_free_dev: the gate is forced to -ENODEV, the input
\* device is freed and ret is returned.  A return of 0 leaves the device
\* bound; any other return lets devres release priv, linked or not
ProbeErrFreeKeymap(d) ==
    /\ wdev[d].pc = "err_free_keymap"
    /\ privacy_valid' = ProbeErrValid
    /\ LET r == ProbeErrReturn(wdev[d].ret) IN
         wdev' = [wdev EXCEPT
                    ![d].input_dev = "freed",
                    ![d].ret = r,
                    ![d].pc = IF r = 0 THEN "bound"
                              ELSE IF InList(d) THEN "dead" ELSE "unbound"]
    /\ hist' = [hist EXCEPT !.pv = "probe_err", !.by = d]
    /\ UNCHANGED <<wmi_list, list_mutex, priv>>
    /\ DevFrame

(* ------------------------------------------------------------------ *)
(* dell_privacy_wmi_remove                                              *)
(* ------------------------------------------------------------------ *)
\* mutex_lock; list_del; mutex_unlock
RemoveListDel(d) ==
    /\ wdev[d].pc = "bound"
    /\ list_mutex = NoTask
    /\ \E outcome \in ListDelOutcomes(d) :
         IF outcome = "oops"
         THEN /\ list_mutex' = d
              /\ wdev' = [wdev EXCEPT ![d].pc = "oops"]
              /\ UNCHANGED wmi_list
         ELSE /\ wmi_list' = ListWithout(d)
              /\ wdev' = [wdev EXCEPT ![d].pc = "rm_invalidate"]
              /\ UNCHANGED list_mutex
    /\ UNCHANGED <<privacy_valid, priv, hist>>
    /\ DevFrame

\* remove that forgets to invalidate the gate
RemoveValid_keep == privacy_valid

\* the value remove stores into privacy_valid
RemoveValid == -ENODEV

\* privacy_valid = -ENODEV; input_unregister_device; return 0, after which
\* devres releases priv
RemoveInvalidate(d) ==
    /\ wdev[d].pc = "rm_invalidate"
    /\ privacy_valid' = RemoveValid
    /\ \E outcome \in UnregisterOutcomes(d) :
         IF outcome = "oops"
         THEN /\ wdev' = [wdev EXCEPT ![d].pc = "oops"]
              /\ hist' = [hist EXCEPT !.pv = "remove", !.sq = "remove", !.by = d]
              /\ UNCHANGED priv
         ELSE /\ wdev' = [wdev EXCEPT ![d] = Unbound(0)]
              /\ hist' = [hist EXCEPT !.pv = "remove", !.sq = "remove", !.by = d,
                                      !.ev = @ \ {d}]
              /\ priv' = [priv EXCEPT ![d] = ZeroPriv]
    /\ UNCHANGED <<wmi_list, list_mutex>>
    /\ DevFrame

DevNext ==
    \E d \in Devs :
        \/ ProbeSetup(d)
        \/ ProbeListAdd(d)
        \/ ProbeQuery(d)
        \/ ProbeStore(d)
        \/ ProbeAddGroup(d)
        \/ ProbeErrFreeInput(d)
        \/ ProbeErrFreeKeymap(d)
        \/ RemoveListDel(d)
        \/ RemoveInvalidate(d)

(* ------------------------------------------------------------------ *)
(* dell_privacy_process_event                                           *)
(* ------------------------------------------------------------------ *)
EvtFrame == UNCHANGED <<privacy_valid, wmi_list, wdev, has_guid, q_ret, led,
                        ec_calls>>

\* process_event_switch with the store of the camera case left out
process_event_switch_nocamera(h, code, status, key, p) ==
    IF code = DELL_PRIVACY_TYPE_AUDIO
    THEN [priv |-> [p EXCEPT !.last_status = status],
          emit |-> <<[dev |-> h, type |-> key.type, keycode |-> key.keycode]>>]
    ELSE IF code = DELL_PRIVACY_TYPE_CAMERA
    THEN [priv |-> p,
          emit |-> <<[dev |-> h, type |-> key.type, keycode |-> key.keycode]>>]
    ELSE [priv |-> p, emit |-> <<>>]

\* process_event_switch that reports only a change of status
process_event_switch_coalesce(h, code, status, key, p) ==
    IF code \in {DELL_PRIVACY_TYPE_AUDIO, DELL_PRIVACY_TYPE_CAMERA}
    THEN [priv |-> [p EXCEPT !.last_status = status],
          emit |-> IF p.last_status = status THEN <<>>
                   ELSE <<[dev |-> h, type |-> key.type, keycode |-> key.keycode]>>]
    ELSE [priv |-> p, emit |-> <<>>]

\* the switch on code: the instance it leaves and the input actions it
\* reports, for the keymap entry the lookup found
process_event_switch(h, code, status, key, p) ==
    IF code = DELL_PRIVACY_TYPE_AUDIO
    THEN [priv |-> [p EXCEPT !.last_status = status],
          emit |-> <<[dev |-> h, type |-> key.type, keycode |-> key.keycode]>>]
    ELSE IF code = DELL_PRIVACY_TYPE_CAMERA
    THEN [priv |-> [p EXCEPT !.last_status = status],
          emit |-> <<[dev |-> h, type |-> key.type, keycode |-> key.keycode]>>]
    ELSE [priv |-> p, emit |-> <<>>]

\* a relay whose "no instance" branch returns without mutex_unlock
process_event_lookup_nounlock(type, code, status) ==
    /\ evt.pc = "idle"
    /\ list_mutex = NoTask
    /\ IF ListFirst = NoTask
       THEN /\ list_mutex' = EvtTask
            /\ UNCHANGED evt
       ELSE \E outcome \in LookupOutcomes(ListFirst) :
              LET key == IF outcome = "null" THEN 0
                         ELSE sparse_keymap_entry_from_scancode(
                                  RemappedKeymap, Scancode(type, code))
              IN  IF outcome = "oops"
                  THEN /\ list_mutex' = EvtTask
                       /\ evt' = [EvtIdle EXCEPT !.pc = "oops"]
                  ELSE IF key = 0
                  THEN UNCHANGED <<list_mutex, evt>>
                  ELSE /\ list_mutex' = EvtTask
                       /\ evt' = [pc |-> "locked", type |-> type, code |-> code,
                                  status |-> status, priv |-> ListFirst,
                                  key |-> key]
    /\ UNCHANGED <<priv, reports>>
    /\ EvtFrame

\* mutex_lock, list_first_entry_or_null and the keymap lookup.  With no
\* instance or no entry the call goes to error: and unlocks at once;
\* otherwise it stands before the switch with the mutex held
process_event_lookup(type, code, status) ==
    /\ evt.pc = "idle"
    /\ list_mutex = NoTask
    /\ IF ListFirst = NoTask
       THEN UNCHANGED <<list_mutex, evt>>
       ELSE \E outcome \in LookupOutcomes(ListFirst) :
              LET key == IF outcome = "null" THEN 0
                         ELSE sparse_keymap_entry_from_scancode(
                                  RemappedKeymap, Scancode(type, code))
              IN  IF outcome = "oops"
                  THEN /\ list_mutex' = EvtTask
                       /\ evt' = [EvtIdle EXCEPT !.pc = "oops"]
                  ELSE IF key = 0
                  THEN UNCHANGED <<list_mutex, evt>>
                  ELSE /\ list_mutex' = EvtTask
                       /\ evt' = [pc |-> "locked", type |-> type, code |-> code,
                                  status |-> status, priv |-> ListFirst,
                                  key |-> key]
    /\ UNCHANGED <<priv, reports>>
    /\ EvtFrame

\* one call of the relay, as long as the log of input actions has room
EvtLookup(type, code, status) ==
    /\ Len(reports) < MaxReports
    /\ process_event_lookup(type, code, status)
    /\ UNCHANGED hist

\* one call of the relay, an accepted (keymap-matching) event being noted in
\* the order of delivery
RelayLookup(type, code, status) ==
    /\ Len(hist.log) < MaxRelayed
    /\ process_event_lookup(type, code, status)
    /\ hist' = IF evt'.pc = "locked"
               THEN [hist EXCEPT !.log = Append(@, [dev |-> evt'.priv,
                                                    code |-> code,
                                                    status |-> status])]
               ELSE IF wmi_list = <<>>
               THEN [hist EXCEPT !.dropped = TRUE]
               ELSE hist

\* the switch, the report and mutex_unlock
EvtApply ==
    /\ evt.pc = "locked"
    /\ \E outcome \in ApplyOutcomes(evt.priv) :
         IF outcome = "oops"
         THEN /\ evt' = [EvtIdle EXCEPT !.pc = "oops"]
              /\ UNCHANGED <<list_mutex, priv, reports, hist>>
         ELSE LET r == process_event_switch(evt.priv, evt.code, evt.status,
                                            RemappedKeymap[evt.key],
                                            priv[evt.priv])
              IN  /\ priv' = [priv EXCEPT ![evt.priv] = r.priv]
                  /\ hist' = IF r.priv.last_status # priv[evt.priv].last_status
                                \/ r.emit # <<>>
                             THEN [hist EXCEPT !.ev = @ \cup {evt.priv}]
                             ELSE hist
                  /\ reports' = reports \o r.emit
                  /\ list_mutex' = NoTask
                  /\ evt' = EvtIdle
    /\ EvtFrame

EvtNext ==
    \/ \E type \in EvTypes, code \in EvCodes, status \in EvStatuses :
          EvtLookup(type, code, status)
    \/ EvtApply

\* probe and remove of the one device of RelayDevs
RelayDevNext ==
    \E d \in RelayDevs :
        \/ ProbeSetup(d)
        \/ ProbeListAdd(d)
        \/ ProbeQuery(d)
        \/ ProbeStore(d)
        \/ ProbeAddGroup(d)
        \/ ProbeErrFreeInput(d)
        \/ ProbeErrFreeKeymap(d)
        \/ RemoveListDel(d)
        \/ RemoveInvalidate(d)

RelayNext ==
    \/ \E type \in EvTypes, code \in EvCodes, status \in EvStatuses :
          RelayLookup(type, code, status)
    \/ EvtApply

(* ------------------------------------------------------------------ *)
(* dell_privacy_valid and the firmware block list                       *)
(* ------------------------------------------------------------------ *)
\* dell_privacy_valid without the wmi_has_guid check
dell_privacy_valid_noguid == privacy_valid

\* dell_privacy_valid that trusts a cached 0 without asking for the GUID
dell_privacy_valid_cached_first ==
    IF privacy_valid = 0 THEN 0
    ELSE IF ~has_guid THEN -ENODEV ELSE privacy_valid

\* the value dell_privacy_valid() returns in the current state
dell_privacy_valid ==
    IF ~has_guid THEN -ENODEV ELSE privacy_valid

\* a read of the gate that rearms it
QueryValidity_rearm ==
    /\ q_ret' = dell_privacy_valid
    /\ privacy_valid' = -EPROBE_DEFER
    /\ UNCHANGED <<wmi_list, list_mutex, priv, wdev, evt, reports, has_guid,
                   led, ec_calls, hist>>

QueryValidity ==
    /\ q_ret' = dell_privacy_valid
    /\ UNCHANGED <<privacy_valid, wmi_list, list_mutex, priv, wdev, evt,
                   reports, has_guid, led, ec_calls, hist>>

\* the wmi core adds or drops the block with the privacy GUID
WmiBlockChange ==
    /\ has_guid' = ~has_guid
    /\ UNCHANGED <<privacy_valid, wmi_list, list_mutex, priv, wdev, evt,
                   reports, q_ret, led, ec_calls, hist>>

GateNext == QueryValidity \/ WmiBlockChange

(* ------------------------------------------------------------------ *)
(* Status attributes                                                    *)
(* ------------------------------------------------------------------ *)
devices_supported_show(d) == sysfs_emit_x(priv[d].features_present)

current_state_show(d) == sysfs_emit_x(priv[d].last_status)

(* ------------------------------------------------------------------ *)
(* dell_privacy_micmute_led_set                                         *)
(* ------------------------------------------------------------------ *)
\* the embedded controller as one call finds it: no handle, a handle without
\* the ECAK method, a handle whose ECAK evaluation fails, a handle whose
\* evaluation succeeds
EcHandles == {"absent", "no_method", "failing", "present"}

\* an indicator that acknowledges only the "on" request
micmute_led_set_ononly(brightness, handle) ==
    IF handle = "absent" THEN [ret |-> -EIO, issued |-> 0]
    ELSE IF handle = "no_method" THEN [ret |-> -EIO, issued |-> 0]
    ELSE IF brightness = 0 THEN [ret |-> 0, issued |-> 0]
    ELSE IF handle = "failing" THEN [ret |-> -EIO, issued |-> 1]
    ELSE [ret |-> 0, issued |-> 1]

\* an indicator that evaluates ECAK without asking for the method
micmute_led_set_nocheck(brightness, handle) ==
    IF handle = "absent" THEN [ret |-> -EIO, issued |-> 0]
    ELSE IF handle = "no_method" THEN [ret |-> -EIO, issued |-> 1]
    ELSE IF handle = "failing" THEN [ret |-> -EIO, issued |-> 1]
    ELSE [ret |-> 0, issued |-> 1]

\* return value and number of ECAK evaluations of one call
micmute_led_set(brightness, handle) ==
    IF handle = "absent" THEN [ret |-> -EIO, issued |-> 0]
    ELSE IF handle = "no_method" THEN [ret |-> -EIO, issued |-> 0]
    ELSE IF handle = "failing" THEN [ret |-> -EIO, issued |-> 1]
    ELSE [ret |-> 0, issued |-> 1]

dell_privacy_micmute_led_set(brightness, handle) ==
    LET r == micmute_led_set(brightness, handle) IN
    /\ ec_calls + r.issued <= MaxAcks
    /\ led' = [brightness |-> brightness, handle |-> handle,
               ret |-> r.ret, issued |-> r.issued]
    /\ ec_calls' = ec_calls + r.issued
    /\ UNCHANGED <<privacy_valid, wmi_list, list_mutex, priv, wdev, evt,
                   reports, has_guid, q_ret, hist>>

LedNext ==
    \E brightness \in {0, 1}, handle \in EcHandles :
        dell_privacy_micmute_led_set(brightness, handle)

(* ------------------------------------------------------------------ *)
(* Specifications                                                       *)
(* ------------------------------------------------------------------ *)
\* probe, remove and the event relay
Next == DevNext \/ EvtNext

Spec == Init /\ [][Next]_vars

\* probe, remove and the consumers of the validity gate
NextGate == DevNext \/ GateNext

SpecGate == Init /\ [][NextGate]_vars

\* probe, remove and the indicator
NextLed == DevNext \/ LedNext

SpecLed == Init /\ [][NextLed]_vars

\* probe, remove and the event relay under fair scheduling: a call of the
\* relay that holds the mutex runs on to its unlock, and a probe that waits
\* for the mutex gets it if the mutex is free again and again
SpecFair ==
    /\ Init
    /\ [][Next]_vars
    /\ WF_vars(EvtApply)
    /\ \A d \in Devs : SF_vars(ProbeListAdd(d))

\* one device and the sequences of events delivered to it
NextRelay == RelayDevNext \/ RelayNext

SpecRelay == Init /\ [][NextRelay]_vars

(* ------------------------------------------------------------------ *)
(* Properties                                                           *)
(* ------------------------------------------------------------------ *)
\* the instance of d is set up and its input device registered: probe has
\* not taken its error path and remove has not run
Live(d) == wdev[d].input_dev = "registered" /\ wdev[d].pc # "dead"

\* no probe or remove is under way (a task that a fault has killed is not
\* under way either)
Quiescent == \A d \in Devs : wdev[d].pc \in {"unbound", "bound", "dead", "oops"}

\* (type << 16) | code is a scancode of the Keymap Table
InKeymapTable(type, code) ==
    type = KeymapType /\ code \in {DELL_PRIVACY_TYPE_AUDIO, DELL_PRIVACY_TYPE_CAMERA}

\* C1: with a live instance at the head of the list, an event whose
\* (type, code) is in the Keymap Table stores status into the head's
\* last_status and emits exactly one input action, on the head and of the
\* entry's kind, touching no other instance; every other 16-bit (type, code)
\* leaves every last_status as it is, emits nothing and never gets to the
\* switch.
C1_KeymapEventsOnly ==
    [][ /\ \A type \in EvTypes, code \in EvCodes, status \in EvStatuses :
             \* (written as conclusion \/ ~premise, the cheap side first)
             \/ IF InKeymapTable(type, code)
                THEN /\ evt'.pc = "locked"
                     /\ evt'.priv = ListFirst
                     /\ evt'.code = code
                     /\ evt'.status = status
                ELSE /\ evt' = evt
                     /\ priv' = priv
                     /\ reports' = reports
             \/ ~(/\ evt.pc = "idle"
                  /\ wdev' = wdev
                  /\ ListFirst # NoTask
                  /\ Live(ListFirst)
                  /\ EvtLookup(type, code, status))
        /\ (EvtApply /\ Live(evt.priv))
             => /\ InKeymapTable(evt.type, evt.code)
                /\ evt.priv = ListFirst
                /\ priv' = [priv EXCEPT ![evt.priv].last_status = evt.status]
                /\ Len(reports') = Len(reports) + 1
                /\ reports'[Len(reports')].dev = evt.priv
                /\ reports'[Len(reports')].keycode =
                      (IF evt.code = DELL_PRIVACY_TYPE_AUDIO
                       THEN KEY_MICMUTE ELSE SW_CAMERA_LENS_COVER)
                /\ SubSeq(reports', 1, Len(reports)) = reports
                /\ evt'.pc = "idle"
                /\ list_mutex' = NoTask
      ]_vars

\* a camera event has been relayed to the live head instance
C1_Witness ==
    /\ reports # <<>>
    /\ ListFirst # NoTask
    /\ Live(ListFirst)
    /\ wdev[ListFirst].pc = "bound"
    /\ reports[Len(reports)] = [dev |-> ListFirst, type |-> KE_SW,
                                keycode |-> SW_CAMERA_LENS_COVER]
    /\ priv[ListFirst].last_status = 3
    /\ evt.pc = "idle"

\* C2 (as stated): whenever no probe or remove is under way and the
\* registration list is empty, the validity state is Invalid: neither Valid
\* (0) nor NotProbed (-EPROBE_DEFER).
C2_EmptyListInvalid ==
    (Quiescent /\ wmi_list = <<>>) => privacy_valid \notin {0, -EPROBE_DEFER}

\* C2 (amended): whenever no probe or remove is under way and the
\* registration list is empty, the validity state is not Valid: it is
\* NotProbed as long as no probe or remove has written it, and -ENODEV
\* afterwards.
C2_EmptyListNotValid ==
    (Quiescent /\ wmi_list = <<>>)
    => /\ privacy_valid # 0
       /\ privacy_valid = (IF hist.pv = "none" THEN -EPROBE_DEFER ELSE -ENODEV)

\* the last instance has been removed
C2_Witness ==
    /\ Quiescent
    /\ wmi_list = <<>>
    /\ hist.pv = "remove"
    /\ \A d \in Devs : wdev[d].pc = "unbound"
    /\ privacy_valid = -ENODEV

\* C3: a probe that failed at its status query or at input-device
\* registration has returned a non-zero error code.
C3_FailedProbeReturnsError ==
    \A d \in Devs :
        (/\ wdev[d].pc \in {"unbound", "bound", "dead"}
         /\ wdev[d].err \in {"status_query", "input_register"})
        => wdev[d].ret # 0

\* the probe of d has returned after its status query failed, and nothing
\* has written privacy_valid since its error path did
FailedQueryLast(d) ==
    /\ wdev[d].pc = "bound"
    /\ wdev[d].err = "status_query"
    /\ hist.by = d

\* C4 (as stated): once a probe whose status query failed has returned, and
\* until another probe or a remove writes the gate, query_validity returns
\* the error code of that failure (-EIO or -EINVAL).
C4_GateKeepsQueryError ==
    \A d \in Devs :
        (has_guid /\ FailedQueryLast(d)) => dell_privacy_valid = wdev[d].qret

\* C4 (amended): once a probe whose status query failed (with -EIO or
\* -EINVAL) has returned, and until another probe or a remove writes the
\* gate, query_validity returns NotFound (-ENODEV), whatever the failure was.
C4_GateNotFoundAfterFailedQuery ==
    \A d \in Devs :
        FailedQueryLast(d)
        => /\ wdev[d].qret \in {-EIO, -EINVAL}
           /\ dell_privacy_valid = -ENODEV

\* a probe has returned after a wrong-length buffer, the interface is
\* present and the gate has been queried
C4_Witness ==
    \E d \in Devs :
        /\ FailedQueryLast(d)
        /\ wdev[d].qret = -EINVAL
        /\ has_guid
        /\ q_ret = -ENODEV

\* C5 (as stated): before any probe has run, query_validity returns NotFound
\* (-ENODEV), whether or not the interface is present.
C5_NotFoundBeforeProbe ==
    ~hist.probed => dell_privacy_valid = -ENODEV

\* C5 (amended): before any probe has run, query_validity returns NotFound
\* (-ENODEV) when the interface is absent and NotReady (-EPROBE_DEFER) when
\* it is present; every call made so far returned one of the two.
C5_NotReadyBeforeProbe ==
    ~hist.probed
    => /\ dell_privacy_valid = (IF has_guid THEN -EPROBE_DEFER ELSE -ENODEV)
       /\ q_ret \in {1, -EPROBE_DEFER, -ENODEV}

\* the gate was queried with the interface present and no probe run yet
C5_Witness ==
    /\ ~hist.probed
    /\ has_guid
    /\ q_ret = -EPROBE_DEFER

\* C6 (as stated): with the interface present and no probe or remove under
\* way, query_validity returns Ok exactly when the most recent status query
\* or removal was a successful status query.
C6_GateFollowsQueryOrRemoval ==
    (has_guid /\ Quiescent)
    => ((dell_privacy_valid = 0) <=> (hist.sq = "query_ok"))

\* C6 (amended): with the interface present, query_validity returns Ok
\* exactly when the most recent write to the gate (by a status query, by the
\* error path of a failed probe or by a removal) was a successful status
\* query, and it returns -ENODEV after a removal or a failed probe until the
\* next status query.
C6_GateFollowsLastWrite ==
    has_guid
    => /\ (dell_privacy_valid = 0) <=> (hist.pv = "query_ok")
       /\ (hist.pv \in {"remove", "probe_err"} => dell_privacy_valid = -ENODEV)
       /\ (hist.pv = "query_err" => dell_privacy_valid \in {-EIO, -EINVAL})

\* an instance was removed while another one stays registered: the gate is
\* invalid although an instance is live
C6_Witness ==
    /\ has_guid
    /\ hist.pv = "remove"
    /\ Quiescent
    /\ \E d \in Devs : InList(d) /\ Live(d) /\ wdev[d].pc = "bound"
    /\ q_ret = -ENODEV

\* the stores of lines 177-178 are the next thing the probe of d does
AboutToStoreStatus(d) ==
    /\ wdev[d].pc = "gcs_store"
    /\ get_current_status(wdev[d].obj, priv[d]).ret = 0

\* C7: last_status of an instance never has two writers at once: whenever the
\* relay stands before its store to an instance with the list mutex held, no
\* probe stands before its own store to that instance without the mutex.
C7_StatusWritesUnderMutex ==
    \A d \in Devs :
        ~(/\ evt.pc = "locked"
          /\ evt.priv = d
          /\ list_mutex = EvtTask
          /\ AboutToStoreStatus(d)
          /\ list_mutex # d)

\* C8: every instance in the registration list has finished its status
\* query, so the relay never holds an instance whose query is still to run
\* or to store.
C8_QueryBeforeListInsert ==
    /\ \A d \in Devs : InList(d) => wdev[d].pc \notin {"query", "gcs_store"}
    /\ evt.pc = "locked" => wdev[evt.priv].pc \notin {"query", "gcs_store"}

\* C9 (as stated): with a reachable handle that has the method,
\* set_indicator(true) returns Ok and issues one acknowledgment call, and
\* set_indicator(false) issues none.
C9_AckOnlyForOn ==
    led.handle = "present"
    => /\ led.brightness = 1 => (led.ret = 0 /\ led.issued = 1)
       /\ led.brightness = 0 => led.issued = 0

\* C9 (amended): with a reachable handle that has the method, every
\* set_indicator request, on or off, returns Ok and issues exactly one
\* acknowledgment call.
C9_AckForEveryRequest ==
    [][ \A brightness \in {0, 1} :
          dell_privacy_micmute_led_set(brightness, "present")
          => /\ ec_calls' = ec_calls + 1
             /\ led'.ret = 0
             /\ led'.issued = 1
             /\ led'.brightness = brightness ]_vars

\* set_indicator(false) has issued an acknowledgment call
C9_Witness ==
    /\ led.brightness = 0
    /\ led.handle = "present"
    /\ led.ret = 0
    /\ ec_calls = 1

DigitValue(c) == CHOOSE i \in 0..15 : HexDigits[i + 1] = c

RECURSIVE ParseHex(_)
ParseHex(t) ==
    IF t = <<>> THEN 0
    ELSE 16 * ParseHex(SubSeq(t, 1, Len(t) - 1)) + DigitValue(t[Len(t)])

\* the number a status attribute shows: the text up to its newline, read as
\* hexadecimal
AttrValue(text) == ParseHex(SubSeq(text, 1, Len(text) - 1))

\* C10: after a status query that returned a well-formed buffer
\* [features, status], the instance has features_present = features and,
\* until an event is accepted for it, last_status = status; once probe has
\* returned, devices_supported and current_state show exactly these values
\* as hexadecimal text ending in a newline.
C10_ProbeRoundTrip ==
    \A d \in Devs :
        wdev[d].fw # <<>>
        => /\ priv[d].features_present = wdev[d].fw[1]
           /\ d \notin hist.ev => priv[d].last_status = wdev[d].fw[2]
           /\ (wdev[d].pc = "bound" /\ wdev[d].err = "none")
              => /\ AttrValue(devices_supported_show(d)) = wdev[d].fw[1]
                 /\ devices_supported_show(d)[Len(devices_supported_show(d))] = "\n"
                 /\ d \notin hist.ev
                    => /\ AttrValue(current_state_show(d)) = wdev[d].fw[2]
                       /\ current_state_show(d)[Len(current_state_show(d))] = "\n"

\* a probe with the buffer [0x1f, 0x1a] has returned and the attributes read
\* "1f" and "1a"
C10_Witness ==
    \E d \in Devs :
        /\ wdev[d].pc = "bound"
        /\ wdev[d].err = "none"
        /\ wdev[d].fw = <<31, 26>>
        /\ d \notin hist.ev
        /\ devices_supported_show(d) = <<"1", "f", "\n">>
        /\ current_state_show(d) = <<"1", "a", "\n">>

\* C11: a status query whose response is a buffer of a length other than 8
\* returns -EINVAL, one whose response is NULL or not a buffer returns -EIO,
\* and in all three cases the step leaves features_present and last_status of
\* the instance as they were: zero, unless an event has written last_status
\* since the instance was allocated.
C11_FailedQueryKeepsFields ==
    [][ \A d \in Devs :
          (wdev[d].pc = "gcs_store" /\ wdev'[d].pc # "gcs_store")
          => LET obj == wdev[d].obj IN
             /\ (obj.kind = "buffer" /\ obj.length # StatusBufferLength)
                => /\ wdev'[d].qret = -EINVAL
                   /\ priv'[d] = priv[d]
             /\ obj.kind \in {"null", "integer"}
                => /\ wdev'[d].qret = -EIO
                   /\ priv'[d] = priv[d]
             /\ (obj.kind # "buffer" \/ obj.length # StatusBufferLength)
                => /\ priv'[d].features_present = 0
                   /\ d \notin hist.ev => priv'[d].last_status = 0
                   /\ \A o \in Devs \ {d} : priv'[o] = priv[o]
      ]_vars

\* a status query has failed on a 4-byte buffer and the fields are still zero
C11_Witness ==
    \E d \in Devs :
        /\ wdev[d].pc = "err_free_input"
        /\ wdev[d].err = "status_query"
        /\ wdev[d].qret = -EINVAL
        /\ priv[d] = ZeroPriv

\* C12: the relay holds the earliest registered instance still in the list
\* and no other: while it stands before the switch the instance it holds is
\* the first entry of the list, its switch stores the status into that
\* instance and leaves last_status and features_present of every other
\* instance as they are, and when remove unlinks the first entry of a list
\* of several, the second entry becomes the first.
C12_HeadOnly ==
    [][ /\ evt.pc = "locked"
           => /\ wmi_list # <<>>
              /\ evt.priv = wmi_list[1]
        /\ (evt.pc = "locked" /\ evt'.pc = "idle")
           => /\ priv'[wmi_list[1]] = [priv[wmi_list[1]] EXCEPT
                                         !.last_status = evt.status]
              /\ \A o \in Devs \ {wmi_list[1]} : priv'[o] = priv[o]
              /\ reports'[Len(reports')].dev = wmi_list[1]
        /\ \A d \in Devs :
             (/\ wdev[d].pc = "bound" /\ wdev'[d].pc = "rm_invalidate"
              /\ Len(wmi_list) > 1 /\ wmi_list[1] = d)
             => /\ wmi_list' = Tail(wmi_list)
                /\ wmi_list'[1] = wmi_list[2]
      ]_vars

\* two instances are registered and an event was relayed to the one
\* registered first, the other one keeping the status of its status query
C12_Witness ==
    /\ Len(wmi_list) = 2
    /\ \A d \in Devs : wdev[d].pc = "bound" /\ wdev[d].err = "none"
    /\ wdev[wmi_list[1]].fw = <<3, 1>>
    /\ wdev[wmi_list[2]].fw = <<31, 26>>
    /\ reports = <<[dev |-> wmi_list[1], type |-> KE_KEY, keycode |-> KEY_MICMUTE]>>
    /\ priv[wmi_list[1]] = [features_present |-> 3, last_status |-> 0]
    /\ priv[wmi_list[2]] = [features_present |-> 31, last_status |-> 26]
    /\ evt.pc = "idle"

\* the input action the switch reports for an accepted event of this code
ReportOf(e) ==
    [dev |-> e.dev,
     type |-> IF e.code = DELL_PRIVACY_TYPE_AUDIO THEN KE_KEY ELSE KE_SW,
     keycode |-> IF e.code = DELL_PRIVACY_TYPE_AUDIO
                 THEN KEY_MICMUTE ELSE SW_CAMERA_LENS_COVER]

C14_IndicatorFrame ==
    [][ \A brightness \in {0, 1}, handle \in EcHandles :
          dell_privacy_micmute_led_set(brightness, handle)
          => /\ handle \in {"absent", "no_method"}
                => /\ led'.ret = -EIO
                   /\ led'.issued = 0
                   /\ ec_calls' = ec_calls
             /\ wmi_list' = wmi_list
             /\ priv' = priv
             /\ privacy_valid' = privacy_valid
             /\ list_mutex' = list_mutex
      ]_vars

\* with an instance registered and the gate valid, set_indicator has found a
\* handle without the method and nothing was evaluated
C14_Witness ==
    /\ led.handle = "no_method"
    /\ led.ret = -EIO
    /\ led.issued = 0
    /\ ec_calls = 0
    /\ wmi_list # <<>>
    /\ privacy_valid = 0

\* C15: a call of dell_privacy_valid writes nothing but its return value
\* (the validity state, the list and every instance stay as they are), and a
\* call made when the previous call's value still matches an unchanged gate
\* and an unchanged interface presence returns that value again.
C15_GateReadIsPure ==
    [][ /\ q_ret' # q_ret
           => /\ q_ret' = dell_privacy_valid
              /\ privacy_valid' = privacy_valid
              /\ wmi_list' = wmi_list
              /\ priv' = priv
              /\ wdev' = wdev
              /\ has_guid' = has_guid
              /\ dell_privacy_valid' = dell_privacy_valid
        /\ (/\ q_ret = dell_privacy_valid
            /\ privacy_valid' = privacy_valid
            /\ has_guid' = has_guid)
           => q_ret' = q_ret
      ]_vars

\* the gate was read as Ok with an instance registered
C15_Witness ==
    /\ q_ret = 0
    /\ has_guid
    /\ privacy_valid = 0
    /\ wmi_list # <<>>
    /\ Quiescent

\* C16: while the privacy GUID is not present, dell_privacy_valid returns
\* -ENODEV whatever the cached value is, a cached 0 included: every call made
\* in such a state returns -ENODEV.
C16_NoGuidNotFound ==
    [][ /\ ~has_guid => dell_privacy_valid = -ENODEV
        /\ (~has_guid /\ ~has_guid' /\ q_ret' # q_ret) => q_ret' = -ENODEV
      ]_vars

\* the GUID has gone while the cached value is Valid, and the gate was read
\* as NotFound
C16_Witness ==
    /\ ~has_guid
    /\ privacy_valid = 0
    /\ wmi_list # <<>>
    /\ q_ret = -ENODEV
    /\ hist.pv = "query_ok"

\* C17: every instance in the registration list has its input device
\* registered and its probe has not failed, and the relay never holds an
\* instance whose input device was unregistered or freed.
C17_ListedInstancesLive ==
    /\ \A d \in Devs : InList(d) => Live(d)
    /\ \A d \in Devs :
         (InList(d) /\ wdev[d].pc \in {"unbound", "bound", "dead"})
         => wdev[d].err = "none"
    /\ evt.pc = "locked" => Live(evt.priv)

\* C18: a call of the relay that finds the registration list empty changes
\* nothing: the list, the mutex, the validity state, every instance, the
\* relay's own position and the log of input actions are as before the call.
C18_NoInstanceNoEffect ==
    [][ (wmi_list = <<>> /\ evt.pc = "idle" /\ wdev' = wdev)
        => /\ wmi_list' = wmi_list
           /\ list_mutex' = list_mutex
           /\ privacy_valid' = privacy_valid
           /\ priv' = priv
           /\ evt' = evt
           /\ reports' = reports
           /\ hist'.log = hist.log
      ]_vars

\* the relay was called after the only instance had been removed, and
\* nothing was emitted
C18_Witness ==
    /\ hist.dropped
    /\ hist.pv = "remove"
    /\ wmi_list = <<>>
    /\ list_mutex = NoTask
    /\ evt.pc = "idle"
    /\ reports = <<>>
    /\ hist.log = <<>>
    /\ privacy_valid = -ENODEV

\* C19: in every state, whatever probes and removes are under way, a gate
\* that reads Ok (0) has an instance in the registration list.
C19_ValidImpliesRegistered ==
    dell_privacy_valid = 0 => wmi_list # <<>>

\* C20: the list mutex is held only by a call of the relay that stands
\* inside its critical section and will unlock: no task that has stopped
\* holds it, so that a probe, a remove or a call of the relay waiting for the
\* mutex is not left waiting for ever.
C20_MutexNeverLeftHeld ==
    /\ list_mutex = EvtTask => evt.pc = "locked"
    /\ \A d \in Devs : list_mutex # d

\* a probe that waits for the list mutex gets it
WaitingProbeAcquires ==
    \A d \in Devs : (wdev[d].pc = "list_add") ~> (wdev[d].pc # "list_add")

====
